---- MODULE Spec2Model ----
(***************************************************************************)
(* QModbusClient (src/serialbus/qmodbusclient.cpp): the request builders,  *)
(* the response dispatch and decoders, and the completion step that maps   *)
(* an arrived response onto the reply of a pending request.                *)
(***************************************************************************)
EXTENDS Integers, Sequences, FiniteSets, TLC

VARIABLES
    isOpen,      \* QModbusDevice: the underlying device is open
    state,       \* QModbusDevice::state()
    error,       \* QModbusDevice::error(), the client-level error surface
    impl,        \* the class whose processPrivateResponse is installed
    queue,       \* the pending requests (QueueElement), oldest first
    last,        \* the last operation run: its arguments, calls and outcome
    dec,         \* a direct call of processResponse: its arguments and outcome
    bld          \* a direct call of createWriteRequest: its argument and result

vars == <<isOpen, state, error, impl, queue, last, dec, bld>>

(***************************************************************************)
(* Bounds of the model.                                                    *)
(***************************************************************************)
\* the number of requests that may be pending at once
MaxPending == 2

\* the largest valueCount of a Data Unit handed to a decoder
MaxCount == 10

\* the largest number of coils of a Data Unit handed to createWriteRequest
MaxCoils == 258

(***************************************************************************)
(* QModbusPdu: function codes, PDUs, encoding and decoding of the payload. *)
(***************************************************************************)
FunctionCode ==
    [Invalid |-> 0, ReadCoils |-> 1, ReadDiscreteInputs |-> 2,
     ReadHoldingRegisters |-> 3, ReadInputRegisters |-> 4,
     WriteSingleCoil |-> 5, WriteSingleRegister |-> 6,
     ReadExceptionStatus |-> 7, Diagnostics |-> 8,
     GetCommEventCounter |-> 11, GetCommEventLog |-> 12,
     WriteMultipleCoils |-> 15, WriteMultipleRegisters |-> 16,
     ReportServerId |-> 17, ReadFileRecord |-> 20, WriteFileRecord |-> 21,
     MaskWriteRegister |-> 22, ReadWriteMultipleRegisters |-> 23,
     ReadFifoQueue |-> 24, EncapsulatedInterfaceTransport |-> 43]

\* Coil::On and Coil::Off, the wire constants of a single coil
Coil == [Off |-> 0, On |-> 65280]

quint8(x) == x % 256

quint16(x) == x % 65536

\* a PDU: one function code byte and the payload bytes
Pdu(code, data) == [code |-> code, data |-> data]

\* QModbusRequest(): the default constructed, invalid PDU
InvalidPdu == Pdu(FunctionCode.Invalid, <<>>)

\* QModbusPdu::isValid
isValidPdu(pdu) == pdu.code # FunctionCode.Invalid /\ pdu.code < 256 /\ Len(pdu.data) < 253

\* QModbusPdu::isException: the top bit of the function code is set
isException(pdu) == (pdu.code \div 128) % 2 = 1

dataSize(pdu) == Len(pdu.data)

\* QModbusResponse::minimumDataSize
minimumDataSize(pdu) ==
    IF isException(pdu) THEN 1
    ELSE IF pdu.code \in {FunctionCode.ReadCoils, FunctionCode.ReadDiscreteInputs} THEN 2
    ELSE IF pdu.code \in {FunctionCode.ReadHoldingRegisters, FunctionCode.ReadInputRegisters,
                          FunctionCode.ReadWriteMultipleRegisters} THEN 3
    ELSE IF pdu.code \in {FunctionCode.WriteSingleCoil, FunctionCode.WriteSingleRegister,
                          FunctionCode.WriteMultipleCoils, FunctionCode.WriteMultipleRegisters} THEN 4
    ELSE 0

\* a quint16 on the wire: two bytes, big-endian
encode16(x) == <<quint16(x) \div 256, quint16(x) % 256>>

RECURSIVE encodeVector16(_)
encodeVector16(v) ==
    IF v = <<>> THEN <<>> ELSE encode16(Head(v)) \o encodeVector16(Tail(v))

\* the big-endian quint16 at byte offset off (0-based) of the payload
decode16(bytes, off) == bytes[off + 1] * 256 + bytes[off + 2]

\* QModbusPdu::decodeData(&address, &value): two big-endian quint16
decodeData(pdu) == [first |-> decode16(pdu.data, 0), second |-> decode16(pdu.data, 2)]

\* bit number b (0 is the least significant) of a byte, as std::bitset<8>
bit(byte, b) == (byte \div (2 ^ b)) % 2

(***************************************************************************)
(* QModbusDataUnit.                                                        *)
(***************************************************************************)
RegisterType == {"DiscreteInputs", "Coils", "InputRegisters", "HoldingRegisters"}

DataUnit(type, address, values) ==
    [type |-> type, startAddress |-> address, valueCount |-> Len(values), values |-> values]

\* QModbusDataUnit(): the default constructed unit
EmptyUnit == [type |-> "Invalid", startAddress |-> -1, valueCount |-> 0, values |-> <<>>]

\* a null QModbusDataUnit pointer
NullUnit == [type |-> "nullptr", startAddress |-> 0, valueCount |-> 0, values |-> <<>>]

isValidUnit(data) == data.type \in RegisterType /\ data.startAddress # -1

\* QModbusDataUnit::value(index): 0 outside the stored values
value(data, index) == IF index < Len(data.values) THEN data.values[index + 1] ELSE 0

setValues(data, values) == [data EXCEPT !.values = values]

setValueCount(data, count) == [data EXCEPT !.valueCount = count]

setStartAddress(data, address) == [data EXCEPT !.startAddress = address]

setRegisterType(data, type) == [data EXCEPT !.type = type]

(***************************************************************************)
(* The request builders.                                                   *)
(***************************************************************************)
createReadRequest(data) ==
    IF ~isValidUnit(data) THEN InvalidPdu
    ELSE IF data.type = "Coils" THEN
        Pdu(FunctionCode.ReadCoils,
            encode16(data.startAddress) \o encode16(data.valueCount))
    ELSE IF data.type = "DiscreteInputs" THEN
        Pdu(FunctionCode.ReadDiscreteInputs,
            encode16(data.startAddress) \o encode16(data.valueCount))
    ELSE IF data.type = "InputRegisters" THEN
        Pdu(FunctionCode.ReadInputRegisters,
            encode16(data.startAddress) \o encode16(data.valueCount))
    ELSE IF data.type = "HoldingRegisters" THEN
        Pdu(FunctionCode.ReadHoldingRegisters,
            encode16(data.startAddress) \o encode16(data.valueCount))
    ELSE InvalidPdu

\* byteCount of the Write Multiple Coils request, a quint8
coilByteCount(data) ==
    LET whole == quint8(data.valueCount \div 8)
    IN  IF data.valueCount % 8 # 0 THEN quint8(whole + 1) ELSE whole

\* one packed byte of the Write Multiple Coils request: bit currentBit is
\* data.value(address++), where address is a quint8 running over all bits
packedByte(data, i) ==
    LET b(currentBit) ==
            IF value(data, quint8(8 * i + currentBit)) # 0 THEN 2 ^ currentBit ELSE 0
    IN  b(0) + b(1) + b(2) + b(3) + b(4) + b(5) + b(6) + b(7)

packedBytes(data) == [i \in 1..coilByteCount(data) |-> packedByte(data, i - 1)]

createWriteRequest(data) ==
    IF data.type = "Coils" THEN
        IF data.valueCount = 1 THEN
            Pdu(FunctionCode.WriteSingleCoil,
                encode16(data.startAddress)
                \o encode16(IF value(data, 0) = 0 THEN Coil.Off ELSE Coil.On))
        ELSE
            Pdu(FunctionCode.WriteMultipleCoils,
                encode16(data.startAddress) \o encode16(data.valueCount)
                \o <<coilByteCount(data)>> \o packedBytes(data))
    ELSE IF data.type = "HoldingRegisters" THEN
        IF data.valueCount = 1 THEN
            Pdu(FunctionCode.WriteSingleRegister,
                encode16(data.startAddress) \o encode16(value(data, 0)))
        ELSE
            Pdu(FunctionCode.WriteMultipleRegisters,
                encode16(data.startAddress) \o encode16(data.valueCount)
                \o <<quint8(data.valueCount * 2)>> \o encodeVector16(data.values))
    ELSE InvalidPdu

createRWRequest(read, write) ==
    IF read.type # "HoldingRegisters" /\ write.type # "HoldingRegisters" THEN InvalidPdu
    ELSE
        Pdu(FunctionCode.ReadWriteMultipleRegisters,
            encode16(read.startAddress) \o encode16(read.valueCount)
            \o encode16(write.startAddress) \o encode16(write.valueCount)
            \o <<quint8(write.valueCount * 2)>> \o encodeVector16(write.values))

(***************************************************************************)
(* The response validator and the decoders.  A decoder yields ok, the      *)
(* boolean it returns, and data, the unit behind the QModbusDataUnit       *)
(* pointer after the call (NullUnit for a null pointer).                   *)
(***************************************************************************)
isValid(response, fc) ==
    IF ~isValidPdu(response) THEN FALSE
    ELSE IF isException(response) THEN FALSE
    ELSE IF response.code # fc THEN FALSE
    ELSE TRUE

Decoded(ok, data) == [ok |-> ok, data |-> data]

\* unpackBits taking the bits of each byte MSB first
unpackBits_msbFirst(payload, data) ==
    [c \in 1..data.valueCount |->
        IF (c - 1) \div 8 + 2 <= Len(payload)
        THEN bit(payload[(c - 1) \div 8 + 2], 7 - ((c - 1) % 8))
        ELSE 0]

\* the bits of payload bytes 1.. taken LSB first into a vector of
\* data->valueCount() zero-initialised values
unpackBits(payload, data) ==
    [c \in 1..data.valueCount |->
        IF (c - 1) \div 8 + 2 <= Len(payload)
        THEN bit(payload[(c - 1) \div 8 + 2], (c - 1) % 8)
        ELSE 0]

\* QDataStream >> quint16, itemCount times, over the payload without its
\* first byte
readRegisters(payload, itemCount) ==
    [k \in 1..itemCount |-> decode16(payload, 1 + 2 * (k - 1))]

processReadCoilsResponse(response, data) ==
    IF ~isValid(response, FunctionCode.ReadCoils) THEN Decoded(FALSE, data)
    ELSE IF dataSize(response) < minimumDataSize(response) THEN Decoded(FALSE, data)
    ELSE LET payload == response.data
             byteCount == quint8(payload[1])
         IN  IF Len(payload) - 1 # byteCount THEN Decoded(FALSE, data)
             ELSE IF data # NullUnit
                  THEN Decoded(TRUE, setValues(data, unpackBits(payload, data)))
                  ELSE Decoded(TRUE, data)

processReadDiscreteInputsResponse(response, data) ==
    IF ~isValid(response, FunctionCode.ReadDiscreteInputs) THEN Decoded(FALSE, data)
    ELSE IF dataSize(response) < minimumDataSize(response) THEN Decoded(FALSE, data)
    ELSE LET payload == response.data
             byteCount == quint8(payload[1])
         IN  IF Len(payload) - 1 # byteCount THEN Decoded(FALSE, data)
             ELSE IF data # NullUnit
                  THEN Decoded(TRUE, setValues(data, unpackBits(payload, data)))
                  ELSE Decoded(TRUE, data)

\* the register decoders without the test that the byte count is even
registersResponse_oddAccepted(response, data, fc, type) ==
    IF ~isValid(response, fc) THEN Decoded(FALSE, data)
    ELSE IF dataSize(response) < minimumDataSize(response) THEN Decoded(FALSE, data)
    ELSE LET byteCount == quint8(response.data[1])
         IN  IF dataSize(response) - 1 # byteCount THEN Decoded(FALSE, data)
             ELSE LET itemCount == quint8(byteCount \div 2)
                      values == readRegisters(response.data, itemCount)
                  IN  IF data # NullUnit
                      THEN Decoded(TRUE,
                               setRegisterType(
                                   setValueCount(setValues(data, values), Len(values)),
                                   type))
                      ELSE Decoded(TRUE, data)

\* the body shared, line for line, by the three register decoders
registersResponse(response, data, fc, type) ==
    IF ~isValid(response, fc) THEN Decoded(FALSE, data)
    ELSE IF dataSize(response) < minimumDataSize(response) THEN Decoded(FALSE, data)
    ELSE LET byteCount == quint8(response.data[1])
         IN  IF dataSize(response) - 1 # byteCount THEN Decoded(FALSE, data)
             ELSE IF byteCount % 2 # 0 THEN Decoded(FALSE, data)
             ELSE LET itemCount == quint8(byteCount \div 2)
                      values == readRegisters(response.data, itemCount)
                  IN  IF data # NullUnit
                      THEN Decoded(TRUE,
                               setRegisterType(
                                   setValueCount(setValues(data, values), Len(values)),
                                   type))
                      ELSE Decoded(TRUE, data)

processReadHoldingRegistersResponse(response, data) ==
    registersResponse(response, data, FunctionCode.ReadHoldingRegisters, "HoldingRegisters")

processReadInputRegistersResponse(response, data) ==
    registersResponse(response, data, FunctionCode.ReadInputRegisters, "InputRegisters")

processWriteSingleCoilResponse(response, data) ==
    IF ~isValid(response, FunctionCode.WriteSingleCoil) THEN Decoded(FALSE, data)
    ELSE IF dataSize(response) # minimumDataSize(response) THEN Decoded(FALSE, data)
    ELSE LET address == decodeData(response).first
             val == decodeData(response).second
         IN  IF val # Coil.Off /\ val # Coil.On THEN Decoded(FALSE, data)
             ELSE IF data # NullUnit
                  THEN Decoded(TRUE,
                           setRegisterType(
                               setValues(setStartAddress(setValueCount(data, 1), address),
                                         <<val>>),
                               "Coils"))
                  ELSE Decoded(TRUE, data)

processWriteSingleRegisterResponse(response, data) ==
    IF ~isValid(response, FunctionCode.WriteSingleRegister) THEN Decoded(FALSE, data)
    ELSE IF dataSize(response) # minimumDataSize(response) THEN Decoded(FALSE, data)
    ELSE LET address == decodeData(response).first
             val == decodeData(response).second
         IN  IF data # NullUnit
             THEN Decoded(TRUE,
                      setRegisterType(
                          setValues(setStartAddress(setValueCount(data, 1), address),
                                    <<val>>),
                          "HoldingRegisters"))
             ELSE Decoded(TRUE, data)

processWriteMultipleCoilsResponse(response, data) ==
    IF ~isValid(response, FunctionCode.WriteMultipleCoils) THEN Decoded(FALSE, data)
    ELSE IF dataSize(response) # minimumDataSize(response) THEN Decoded(FALSE, data)
    ELSE LET address == decodeData(response).first
             count == decodeData(response).second
         IN  IF data # NullUnit
             THEN Decoded(TRUE,
                      setRegisterType(
                          setStartAddress(setValueCount(data, count), address), "Coils"))
             ELSE Decoded(TRUE, data)

processWriteMultipleRegistersResponse(response, data) ==
    IF ~isValid(response, FunctionCode.WriteMultipleRegisters) THEN Decoded(FALSE, data)
    ELSE IF dataSize(response) # minimumDataSize(response) THEN Decoded(FALSE, data)
    ELSE LET address == decodeData(response).first
             count == decodeData(response).second
         IN  IF count < 1 \/ count > 123 THEN Decoded(FALSE, data)
             ELSE IF data # NullUnit
                  THEN Decoded(TRUE,
                           setRegisterType(
                               setValueCount(setStartAddress(data, address), count),
                               "HoldingRegisters"))
                  ELSE Decoded(TRUE, data)

processReadWriteMultipleRegistersResponse(response, data) ==
    registersResponse(response, data, FunctionCode.ReadWriteMultipleRegisters,
                      "HoldingRegisters")

(***************************************************************************)
(* The dispatch and the extension hook.  cls is the class of the client    *)
(* object: QModbusClient itself, or a subclass that overrides              *)
(* processPrivateResponse and accepts every response it is handed.         *)
(***************************************************************************)
Dispatched(called, res) == [ok |-> res.ok, data |-> res.data, called |-> called]

\* QModbusClient::processPrivateResponse, the default implementation
processPrivateResponse(response, data) == Decoded(FALSE, data)

\* q_func()->processPrivateResponse(response, data): a virtual call
callPrivateResponse(cls, response, data) ==
    IF cls = "QModbusClient" THEN processPrivateResponse(response, data)
    ELSE Decoded(TRUE, data)

processResponse(response, data, cls) ==
    LET fc == response.code
    IN  IF fc = FunctionCode.ReadCoils THEN
            Dispatched("processReadCoilsResponse",
                       processReadCoilsResponse(response, data))
        ELSE IF fc = FunctionCode.ReadDiscreteInputs THEN
            Dispatched("processReadDiscreteInputsResponse",
                       processReadDiscreteInputsResponse(response, data))
        ELSE IF fc = FunctionCode.ReadHoldingRegisters THEN
            Dispatched("processReadHoldingRegistersResponse",
                       processReadHoldingRegistersResponse(response, data))
        ELSE IF fc = FunctionCode.ReadInputRegisters THEN
            Dispatched("processReadInputRegistersResponse",
                       processReadInputRegistersResponse(response, data))
        ELSE IF fc = FunctionCode.WriteSingleCoil THEN
            Dispatched("processWriteSingleCoilResponse",
                       processWriteSingleCoilResponse(response, data))
        ELSE IF fc = FunctionCode.WriteSingleRegister THEN
            Dispatched("processWriteSingleRegisterResponse",
                       processWriteSingleRegisterResponse(response, data))
        ELSE IF fc \in {FunctionCode.ReadExceptionStatus, FunctionCode.Diagnostics,
                        FunctionCode.GetCommEventCounter, FunctionCode.GetCommEventLog,
                        FunctionCode.WriteMultipleCoils} THEN
            Dispatched("processWriteMultipleCoilsResponse",
                       processWriteMultipleCoilsResponse(response, data))
        ELSE IF fc = FunctionCode.WriteMultipleRegisters THEN
            Dispatched("processWriteMultipleRegistersResponse",
                       processWriteMultipleRegistersResponse(response, data))
        ELSE IF fc \in {FunctionCode.ReportServerId, FunctionCode.ReadFileRecord,
                        FunctionCode.WriteFileRecord, FunctionCode.MaskWriteRegister,
                        FunctionCode.ReadWriteMultipleRegisters} THEN
            Dispatched("processReadWriteMultipleRegistersResponse",
                       processReadWriteMultipleRegistersResponse(response, data))
        ELSE
            Dispatched("processPrivateResponse",
                       callPrivateResponse(cls, response, data))

(***************************************************************************)
(* QModbusReply, the reply sink, and the completion step.                  *)
(***************************************************************************)
\* QModbusReply(type, serverAddress): a new, pending reply
NewReply(type, serverAddress) ==
    [type |-> type, serverAddress |-> serverAddress,
     rawResult |-> InvalidPdu, error |-> "NoError", result |-> EmptyUnit,
     finished |-> FALSE]

\* the null QModbusReply pointer
NoReply == NewReply("None", 0)

setRawResult(reply, pdu) == [reply EXCEPT !.rawResult = pdu]

setError(reply, kind) == [reply EXCEPT !.error = kind]

setResult(reply, unit) == [reply EXCEPT !.result = unit]

setFinished(reply, isFinished) == [reply EXCEPT !.finished = isFinished]

\* reply: the reply sink after the step; calls: what the step called, in order
Completed(reply, calls) == [reply |-> reply, calls |-> calls]

\* processQueueElement with the Raw test ahead of the exception test
processQueueElement_rawFirst(pdu, element, cls) ==
    LET attached == setRawResult(element.reply, pdu)
    IN  IF attached.type = "Raw" THEN
            Completed(setFinished(attached, TRUE), <<"setRawResult", "setFinished">>)
        ELSE IF isException(pdu) THEN
            Completed(setError(attached, "ProtocolError"), <<"setRawResult", "setError">>)
        ELSE LET res == processResponse(pdu, element.unit, cls)
             IN  IF ~res.ok THEN
                     Completed(setError(attached, "UnknownError"),
                               <<"setRawResult", res.called, "setError">>)
                 ELSE
                     Completed(setFinished(setResult(attached, res.data), TRUE),
                               <<"setRawResult", res.called, "setResult", "setFinished">>)

\* processQueueElement without the Raw shortcut: every reply is decoded
processQueueElement_decodesRaw(pdu, element, cls) ==
    LET attached == setRawResult(element.reply, pdu)
    IN  IF isException(pdu) THEN
            Completed(setError(attached, "ProtocolError"), <<"setRawResult", "setError">>)
        ELSE LET res == processResponse(pdu, element.unit, cls)
             IN  IF ~res.ok THEN
                     Completed(setError(attached, "UnknownError"),
                               <<"setRawResult", res.called, "setError">>)
                 ELSE
                     Completed(setFinished(setResult(attached, res.data), TRUE),
                               <<"setRawResult", res.called, "setResult", "setFinished">>)

\* processQueueElement without the return after a failed decode
processQueueElement_noReturn(pdu, element, cls) ==
    LET attached == setRawResult(element.reply, pdu)
    IN  IF isException(pdu) THEN
            Completed(setError(attached, "ProtocolError"), <<"setRawResult", "setError">>)
        ELSE IF attached.type = "Raw" THEN
            Completed(setFinished(attached, TRUE), <<"setRawResult", "setFinished">>)
        ELSE LET res == processResponse(pdu, element.unit, cls)
             IN  IF ~res.ok THEN
                     Completed(setFinished(
                                   setResult(setError(attached, "UnknownError"), res.data),
                                   TRUE),
                               <<"setRawResult", res.called, "setError", "setResult",
                                 "setFinished">>)
                 ELSE
                     Completed(setFinished(setResult(attached, res.data), TRUE),
                               <<"setRawResult", res.called, "setResult", "setFinished">>)

processQueueElement(pdu, element, cls) ==
    LET attached == setRawResult(element.reply, pdu)
    IN  IF isException(pdu) THEN
            Completed(setError(attached, "ProtocolError"), <<"setRawResult", "setError">>)
        ELSE IF attached.type = "Raw" THEN
            Completed(setFinished(attached, TRUE), <<"setRawResult", "setFinished">>)
        ELSE LET res == processResponse(pdu, element.unit, cls)
             IN  IF ~res.ok THEN
                     Completed(setError(attached, "UnknownError"),
                               <<"setRawResult", res.called, "setError">>)
                 ELSE
                     Completed(setFinished(setResult(attached, res.data), TRUE),
                               <<"setRawResult", res.called, "setResult", "setFinished">>)

(***************************************************************************)
(* The send path.  A send yields the client-level error, the queue and the *)
(* returned reply (NoReply for Q_NULLPTR).                                 *)
(***************************************************************************)
Sent(err, q, reply) == [error |-> err, queue |-> q, reply |-> reply]

QueueElement(request, unit, reply) == [request |-> request, unit |-> unit, reply |-> reply]

\* the transport's enqueueRequest: a new reply, queued with the request
enqueueRequest(request, serverAddress, unit, type) ==
    LET reply == NewReply(type, serverAddress)
    IN  Sent(error, Append(queue, QueueElement(request, unit, reply)), reply)

\* sendRequest with the validity test ahead of the connection test
sendRequest_validFirst(request, serverAddress, unit) ==
    IF ~isValidPdu(request) THEN Sent("WriteError", queue, NoReply)
    ELSE IF ~isOpen \/ state # "ConnectedState" THEN Sent("ConnectionError", queue, NoReply)
    ELSE IF unit # NullUnit THEN enqueueRequest(request, serverAddress, unit, "Common")
    ELSE enqueueRequest(request, serverAddress, EmptyUnit, "Raw")

\* unit is NullUnit when the caller passes Q_NULLPTR
sendRequest(request, serverAddress, unit) ==
    IF ~isOpen \/ state # "ConnectedState" THEN Sent("ConnectionError", queue, NoReply)
    ELSE IF ~isValidPdu(request) THEN Sent("WriteError", queue, NoReply)
    ELSE IF unit # NullUnit THEN enqueueRequest(request, serverAddress, unit, "Common")
    ELSE enqueueRequest(request, serverAddress, EmptyUnit, "Raw")

(***************************************************************************)
(* The inputs of the client model.                                         *)
(***************************************************************************)
DeviceStates == {"UnconnectedState", "ConnectedState"}

Classes == {"QModbusClient", "CustomClient"}

ServerAddresses == {1}

\* the Data Units a caller reads or writes; the last is default constructed
SendUnits ==
    {DataUnit("Coils", 5, <<1>>), DataUnit("HoldingRegisters", 1, <<100, 200>>), EmptyUnit}

\* one Data Unit of each kind for the combined read and write
RWUnits == {DataUnit(t, 2, <<7>>) : t \in RegisterType}

RawRequests == {Pdu(FunctionCode.ReadCoils, <<0, 0, 0, 10>>), InvalidPdu}

\* the responses a server may send: exceptions, well-formed and malformed
\* acknowledgements, and a code this client has no decoder for
ClientResponses ==
    {Pdu(129, <<2>>), Pdu(144, <<3>>),
     Pdu(FunctionCode.ReadCoils, <<1, 5>>),
     Pdu(FunctionCode.ReadHoldingRegisters, <<2, 0, 100>>),
     Pdu(FunctionCode.WriteMultipleRegisters, <<0, 1, 0, 200>>),
     Pdu(FunctionCode.WriteMultipleRegisters, <<0, 1, 0, 2>>),
     Pdu(65, <<255>>)}

(***************************************************************************)
(* The client as a state machine.                                          *)
(***************************************************************************)
NoElement == QueueElement(InvalidPdu, EmptyUnit, NoReply)

\* the record of the last operation: for a send the built request, the
\* unit(s) passed and the reply returned; for a completion the pending
\* request, the response, the reply afterwards and the calls made, in order
SendCall(op, request, unit, write, reply) ==
    [op |-> op, request |-> request, unit |-> unit, write |-> write, reply |-> reply,
     element |-> NoElement, pdu |-> InvalidPdu, calls |-> <<>>]

CompleteCall(element, pdu, done) ==
    [op |-> "processQueueElement", request |-> element.request, unit |-> element.unit,
     write |-> NullUnit, reply |-> done.reply, element |-> element, pdu |-> pdu,
     calls |-> done.calls]

NoCall == SendCall("none", InvalidPdu, NullUnit, NullUnit, NoReply)

NoDecode == [phase |-> "idle", response |-> InvalidPdu, data |-> NullUnit,
             ok |-> FALSE, out |-> NullUnit, called |-> "none"]

NoBuild == [phase |-> "idle", unit |-> EmptyUnit, request |-> InvalidPdu]

Init ==
    /\ isOpen = FALSE
    /\ state = "UnconnectedState"
    /\ error = "NoError"
    /\ impl \in Classes
    /\ queue = <<>>
    /\ last = NoCall
    /\ dec = NoDecode
    /\ bld = NoBuild

\* the device is opened, connected, disconnected or closed
SetDevice(open, st) ==
    /\ isOpen' = open
    /\ state' = st
    /\ last' = NoCall
    /\ UNCHANGED <<error, impl, queue, dec, bld>>

\* the effect of a send on the client
Send(op, request, serverAddress, unit, write) ==
    LET sent == sendRequest(request, serverAddress, unit)
    IN  /\ Len(queue) < MaxPending
        /\ error' = sent.error
        /\ queue' = sent.queue
        /\ last' = SendCall(op, request, unit, write, sent.reply)
        /\ UNCHANGED <<isOpen, state, impl, dec, bld>>

sendReadRequest(read, serverAddress) ==
    Send("sendReadRequest", createReadRequest(read), serverAddress, read, NullUnit)

sendWriteRequest(write, serverAddress) ==
    Send("sendWriteRequest", createWriteRequest(write), serverAddress, write, NullUnit)

sendReadWriteRequest(read, write, serverAddress) ==
    Send("sendReadWriteRequest", createRWRequest(read, write), serverAddress, read, write)

sendRawRequest(request, serverAddress) ==
    Send("sendRawRequest", request, serverAddress, NullUnit, NullUnit)

RemoveAt(q, i) == SubSeq(q, 1, i - 1) \o SubSeq(q, i + 1, Len(q))

\* a completion that also reports a failure on the client-level surface
Complete_reportsOnClient(i, pdu) ==
    LET done == processQueueElement(pdu, queue[i], impl)
    IN  /\ queue' = RemoveAt(queue, i)
        /\ last' = CompleteCall(queue[i], pdu, done)
        /\ error' = IF done.reply.error # "NoError" THEN done.reply.error ELSE error
        /\ UNCHANGED <<isOpen, state, impl, dec, bld>>

\* the transport delivers the response to pending request i and drops the
\* request from the queue
Complete(i, pdu) ==
    LET done == processQueueElement(pdu, queue[i], impl)
    IN  /\ queue' = RemoveAt(queue, i)
        /\ last' = CompleteCall(queue[i], pdu, done)
        /\ UNCHANGED <<isOpen, state, error, impl, dec, bld>>

Next ==
    \/ \E open \in BOOLEAN, st \in DeviceStates : SetDevice(open, st)
    \/ \E u \in SendUnits, a \in ServerAddresses : sendReadRequest(u, a)
    \/ \E u \in SendUnits, a \in ServerAddresses : sendWriteRequest(u, a)
    \/ \E r \in RWUnits, w \in RWUnits, a \in ServerAddresses :
           sendReadWriteRequest(r, w, a)
    \/ \E r \in RawRequests, a \in ServerAddresses : sendRawRequest(r, a)
    \/ \E i \in 1..Len(queue) :
           \E pdu \in ClientResponses \cup {queue[i].request} : Complete(i, pdu)

Spec == Init /\ [][Next]_vars


(***************************************************************************)
(* QModbusClient::processResponse called directly: the dispatch and the    *)
(* decoders on any response and any Data Unit, a null pointer included.    *)
(***************************************************************************)
Zeros(n) == [i \in 1..n |-> 0]

\* QModbusDataUnit(type, address, size) for every kind and size, two units
\* with values, the default constructed unit and the null pointer
ContextUnits ==
    {DataUnit(t, 7, Zeros(n)) : t \in RegisterType, n \in 0..MaxCount}
    \cup {DataUnit("Coils", 5, <<1>>), DataUnit("Coils", 3, <<1, 0, 1>>),
          DataUnit("HoldingRegisters", 1, <<100, 200>>), EmptyUnit, NullUnit}

\* every function code of QModbusPdu, a code unknown to it, an exception
\* and the invalid code
DecodeCodes ==
    {FunctionCode.Invalid, FunctionCode.ReadCoils, FunctionCode.ReadDiscreteInputs,
     FunctionCode.ReadHoldingRegisters, FunctionCode.ReadInputRegisters,
     FunctionCode.WriteSingleCoil, FunctionCode.WriteSingleRegister,
     FunctionCode.ReadExceptionStatus, FunctionCode.Diagnostics,
     FunctionCode.GetCommEventCounter, FunctionCode.GetCommEventLog,
     FunctionCode.WriteMultipleCoils, FunctionCode.WriteMultipleRegisters,
     FunctionCode.ReportServerId, FunctionCode.ReadFileRecord,
     FunctionCode.WriteFileRecord, FunctionCode.MaskWriteRegister,
     FunctionCode.ReadWriteMultipleRegisters, FunctionCode.ReadFifoQueue,
     FunctionCode.EncapsulatedInterfaceTransport, 65, 129}

\* payloads: empty and truncated ones, byte-count headed ones (matching,
\* mismatching, odd), and address/value pairs around the limits
DecodePayloads ==
    {<<>>, <<0>>, <<1, 5>>, <<1, 255>>, <<2, 255, 3>>, <<2, 165, 1>>, <<2, 1>>,
     <<3, 1, 2, 3>>, <<2, 0, 100>>, <<6, 0, 100, 0, 200, 1, 44>>,
     <<0, 5, 255, 0>>, <<0, 5, 0, 0>>, <<0, 5, 0, 1>>, <<0, 5, 255>>,
     <<0, 5, 255, 0, 0>>, <<0, 1, 0, 2>>, <<0, 1, 0, 123>>, <<0, 1, 0, 124>>,
     <<0, 1, 0, 200>>}

DecodeResponses == {Pdu(c, d) : c \in DecodeCodes, d \in DecodePayloads}

DecInit ==
    /\ isOpen = FALSE
    /\ state = "UnconnectedState"
    /\ error = "NoError"
    /\ impl \in Classes
    /\ queue = <<>>
    /\ last = NoCall
    /\ dec \in {[phase |-> "call", response |-> r, data |-> d, ok |-> FALSE,
                 out |-> d, called |-> "none"] :
                    r \in DecodeResponses, d \in ContextUnits}
    /\ bld = NoBuild

\* QModbusClient::processResponse(response, data)
ProcessResponse ==
    /\ dec.phase = "call"
    /\ LET res == processResponse(dec.response, dec.data, impl)
       IN  dec' = [dec EXCEPT !.phase = "return", !.ok = res.ok, !.out = res.data,
                              !.called = res.called]
    /\ UNCHANGED <<isOpen, state, error, impl, queue, last, bld>>

DecNext == ProcessResponse

SpecDecode == DecInit /\ [][DecNext]_vars


(***************************************************************************)
(* The completion step.                                                    *)
(***************************************************************************)
Completing == last.op = "processQueueElement"

Decoders ==
    {"processReadCoilsResponse", "processReadDiscreteInputsResponse",
     "processReadHoldingRegistersResponse", "processReadInputRegistersResponse",
     "processWriteSingleCoilResponse", "processWriteSingleRegisterResponse",
     "processWriteMultipleCoilsResponse", "processWriteMultipleRegistersResponse",
     "processReadWriteMultipleRegistersResponse"}

Hooks == {"processPrivateResponse"}

Called(names) == \E k \in 1..Len(last.calls) : last.calls[k] \in names

\* C1: an exception response completes a pending request of either reply
\* kind by attaching the raw response first and then setting the error
\* ProtocolError; no decoder and no extension hook is called, no result is
\* set and the reply is not marked Finished.
ExceptionSetsProtocolError ==
    Completing /\ isException(last.pdu) =>
        /\ last.calls = <<"setRawResult", "setError">>
        /\ last.reply.rawResult = last.pdu
        /\ last.reply.error = "ProtocolError"
        /\ ~Called(Decoders \cup Hooks)
        /\ last.reply.result = last.element.reply.result
        /\ ~last.reply.finished

\* an exception response arrived for a Raw reply
ExceptionWitness ==
    /\ Completing
    /\ isException(last.pdu)
    /\ last.element.reply.type = "Raw"
    /\ last.reply.error = "ProtocolError"

\* C2: a non-exception response completes a Raw reply by attaching the raw
\* response and marking the reply Finished at once: no decoder or hook is
\* called, no result and no error is set, whatever the payload is.
RawFinishesWithoutDecode ==
    Completing /\ ~isException(last.pdu) /\ last.element.reply.type = "Raw" =>
        /\ last.calls = <<"setRawResult", "setFinished">>
        /\ last.reply.rawResult = last.pdu
        /\ last.reply.finished
        /\ ~Called(Decoders \cup Hooks)
        /\ last.reply.result = last.element.reply.result
        /\ last.reply.error = "NoError"

\* a Raw reply finished on a payload the dispatch rejects
RawWitness ==
    /\ Completing
    /\ last.element.reply.type = "Raw"
    /\ last.pdu = Pdu(FunctionCode.WriteMultipleRegisters, <<0, 1, 0, 200>>)
    /\ ~processResponse(last.pdu, last.element.unit, impl).ok
    /\ last.reply.finished

\* C3: a non-exception response completes a Common reply by the boolean of
\* the dispatched decoder alone: false sets the error UnknownError, sets no
\* result and does not mark the reply Finished; true sets the decoder's
\* updated copy of the request's Data Unit as the result and then marks the
\* reply Finished, with no error.
DecoderDecidesOutcome ==
    Completing /\ ~isException(last.pdu) /\ last.element.reply.type = "Common" =>
        LET res == processResponse(last.pdu, last.element.unit, impl)
        IN  /\ last.reply.rawResult = last.pdu
            /\ IF res.ok
               THEN /\ last.calls = <<"setRawResult", res.called, "setResult", "setFinished">>
                    /\ last.reply.result = res.data
                    /\ last.reply.finished
                    /\ last.reply.error = "NoError"
               ELSE /\ last.calls = <<"setRawResult", res.called, "setError">>
                    /\ last.reply.error = "UnknownError"
                    /\ last.reply.result = last.element.reply.result
                    /\ ~last.reply.finished

\* the Write Multiple Registers acknowledgement with count 200 arrived for
\* a Common reply
DecodeFailureWitness ==
    /\ Completing
    /\ last.element.reply.type = "Common"
    /\ last.pdu = Pdu(FunctionCode.WriteMultipleRegisters, <<0, 1, 0, 200>>)
    /\ last.reply.error = "UnknownError"


(***************************************************************************)
(* The send path.                                                          *)
(***************************************************************************)
SendOps == {"sendReadRequest", "sendWriteRequest", "sendReadWriteRequest", "sendRawRequest"}

Connected == isOpen /\ state = "ConnectedState"

\* the queue element a send accepted by sendRequest must add
Accepted(call) ==
    IF call.op = "sendRawRequest"
    THEN QueueElement(call.request, EmptyUnit, call.reply)
    ELSE QueueElement(call.request, call.unit, call.reply)

\* C4: a send enqueues a request and returns a reply only when the device
\* is open and Connected and the built request is valid; otherwise the
\* queue is unchanged, no reply is returned and the client-level error is
\* ConnectionError when not open or not Connected (whatever the request)
\* and WriteError when connected with an invalid request.  An accepted
\* request is appended exactly once, with a pending reply of kind Common
\* and the caller's Data Unit, or of kind Raw and an empty Data Unit for a
\* raw request.
SendEnqueuesOnlyWhenConnectedAndValid ==
    [][last'.op \in SendOps =>
          IF Connected /\ isValidPdu(last'.request)
          THEN /\ last'.reply # NoReply
               /\ last'.reply.type = IF last'.op = "sendRawRequest" THEN "Raw" ELSE "Common"
               /\ last'.reply \in {NewReply(last'.reply.type, a) : a \in ServerAddresses}
               /\ queue' = Append(queue, Accepted(last'))
               /\ error' = error
          ELSE /\ last'.reply = NoReply
               /\ queue' = queue
               /\ error' = IF ~Connected THEN "ConnectionError" ELSE "WriteError"
      ]_vars

\* both refusals and both acceptances have happened: a raw request was
\* queued behind a request with a Data Unit
SendWitness ==
    /\ last.op = "sendRawRequest"
    /\ last.reply # NoReply
    /\ Len(queue) = 2
    /\ queue[1].reply.type = "Common"
    /\ queue[2] = QueueElement(last.request, EmptyUnit, NewReply("Raw", 1))

\* C5: completing one of several pending requests changes only the reply of
\* that request: the client-level error is unchanged and every other
\* pending request, with its reply, is left as it was, whichever request
\* the response is for.
CompletionTouchesOneReply ==
    [][Len(queue') < Len(queue) =>
          /\ last'.op = "processQueueElement"
          /\ error' = error
          /\ \E i \in 1..Len(queue) :
                 /\ last'.element = queue[i]
                 /\ queue' = RemoveAt(queue, i)
      ]_vars

\* one of two pending requests failed to decode and the other is pending
CompletionWitness ==
    /\ Completing
    /\ last.reply.error = "UnknownError"
    /\ Len(queue) = 1
    /\ queue[1].reply = NewReply(queue[1].reply.type, 1)
    /\ error = "NoError"

\* C6: createRWRequest returns a valid request only when the read and the
\* write Data Unit are both HoldingRegisters; for every other pair of kinds
\* the request is invalid and sendReadWriteRequest is refused.
RWRequestNeedsBothHoldingRegisters ==
    last.op = "sendReadWriteRequest" =>
        LET both == last.unit.type = "HoldingRegisters" /\ last.write.type = "HoldingRegisters"
        IN  /\ isValidPdu(last.request) <=> both
            /\ ~both => last.reply = NoReply
            /\ ~both /\ Connected => error = "WriteError"

(***************************************************************************)
(* The dispatch and the decoders.                                          *)
(***************************************************************************)
Returned == dec.phase = "return"

\* the decoder the dispatch is to call for a function code with a built-in
\* decoder
BuiltIn ==
    [c \in {FunctionCode.ReadCoils, FunctionCode.ReadDiscreteInputs,
            FunctionCode.ReadHoldingRegisters, FunctionCode.ReadInputRegisters,
            FunctionCode.WriteSingleCoil, FunctionCode.WriteSingleRegister,
            FunctionCode.WriteMultipleCoils, FunctionCode.WriteMultipleRegisters,
            FunctionCode.ReadWriteMultipleRegisters} |->
        CASE c = FunctionCode.ReadCoils -> "processReadCoilsResponse"
          [] c = FunctionCode.ReadDiscreteInputs -> "processReadDiscreteInputsResponse"
          [] c = FunctionCode.ReadHoldingRegisters -> "processReadHoldingRegistersResponse"
          [] c = FunctionCode.ReadInputRegisters -> "processReadInputRegistersResponse"
          [] c = FunctionCode.WriteSingleCoil -> "processWriteSingleCoilResponse"
          [] c = FunctionCode.WriteSingleRegister -> "processWriteSingleRegisterResponse"
          [] c = FunctionCode.WriteMultipleCoils -> "processWriteMultipleCoilsResponse"
          [] c = FunctionCode.WriteMultipleRegisters -> "processWriteMultipleRegistersResponse"
          [] OTHER -> "processReadWriteMultipleRegistersResponse"]

\* C7: the dispatch calls a built-in decoder only for the nine function
\* codes that have one; every other code goes to the extension hook, whose
\* result (false by default) is the result of the dispatch.
OnlyBuiltInCodesAreDecoded ==
    Returned =>
        IF dec.response.code \in DOMAIN BuiltIn
        THEN dec.called = BuiltIn[dec.response.code]
        ELSE /\ dec.called = "processPrivateResponse"
             /\ dec.ok = (impl # "QModbusClient")
             /\ dec.out = dec.data

\* C8: a Write Single Coil response of the minimum size decodes to a one
\* element Coils unit at the decoded address whose value is 1 for the wire
\* value 0xFF00 and 0 for 0x0000, and fails for any other wire value.
SingleCoilDecodesToBoolean ==
    /\ Returned
    /\ isValid(dec.response, FunctionCode.WriteSingleCoil)
    /\ dataSize(dec.response) = minimumDataSize(dec.response)
    /\ dec.data # NullUnit
    => LET address == decode16(dec.response.data, 0)
           wire == decode16(dec.response.data, 2)
       IN  IF wire \in {Coil.On, Coil.Off}
           THEN /\ dec.ok
                /\ dec.out = DataUnit("Coils", address, <<IF wire = Coil.On THEN 1 ELSE 0>>)
           ELSE ~dec.ok

\* the decoder accepted a Read Coils or Read Discrete Inputs response for a
\* Data Unit of 1..MaxCount values
BitsDecoded ==
    /\ Returned
    /\ dec.called \in {"processReadCoilsResponse", "processReadDiscreteInputsResponse"}
    /\ dec.ok
    /\ dec.data # NullUnit
    /\ dec.data.valueCount >= 1

\* C9 as stated: every value i below valueCount is bit i mod 8 of the data
\* byte i div 8 of the response.
BitsComeFromResponseBytes ==
    BitsDecoded =>
        /\ Len(dec.out.values) = dec.data.valueCount
        /\ dec.out.valueCount = dec.data.valueCount
        /\ dec.out.startAddress = dec.data.startAddress
        /\ dec.out.type = dec.data.type
        /\ \A i \in 0..(dec.data.valueCount - 1) :
               /\ i \div 8 < Len(dec.response.data) - 1
               /\ dec.out.values[i + 1] = bit(dec.response.data[i \div 8 + 2], i % 8)

\* C9: an accepted Read Coils or Read Discrete Inputs response decodes to
\* exactly valueCount values, each 0 or 1; value i is bit i mod 8, LSB
\* first, of data byte i div 8 where the response carries that byte and 0
\* where it does not; bits past valueCount are ignored and the start
\* address and the kind of the Data Unit are kept.
BitsComeFromResponseBytesOrZero ==
    BitsDecoded =>
        /\ Len(dec.out.values) = dec.data.valueCount
        /\ dec.out.valueCount = dec.data.valueCount
        /\ dec.out.startAddress = dec.data.startAddress
        /\ dec.out.type = dec.data.type
        /\ \A i \in 0..(dec.data.valueCount - 1) :
               /\ dec.out.values[i + 1] \in {0, 1}
               /\ dec.out.values[i + 1] =
                      IF i \div 8 < Len(dec.response.data) - 1
                      THEN bit(dec.response.data[i \div 8 + 2], i % 8)
                      ELSE 0

\* ten coils read from the bytes FF 03: ten ones, the pad bits ignored
BitsWitness ==
    /\ BitsDecoded
    /\ dec.response = Pdu(FunctionCode.ReadCoils, <<2, 255, 3>>)
    /\ dec.data.valueCount = 10
    /\ dec.out.values = <<1, 1, 1, 1, 1, 1, 1, 1, 1, 1>>

\* C10: after a successful decode by a built-in decoder the Data Unit holds
\* as many values as its valueCount says.
DecodedValuesMatchCount ==
    Returned /\ dec.ok /\ dec.called \in Decoders /\ dec.data # NullUnit =>
        Len(dec.out.values) = dec.out.valueCount


(***************************************************************************)
(* Each decoder called on any response, whatever its function code.        *)
(***************************************************************************)
\* the decoder of that name
decoder(name, response, data) ==
    CASE name = "processReadCoilsResponse" ->
             processReadCoilsResponse(response, data)
      [] name = "processReadDiscreteInputsResponse" ->
             processReadDiscreteInputsResponse(response, data)
      [] name = "processReadHoldingRegistersResponse" ->
             processReadHoldingRegistersResponse(response, data)
      [] name = "processReadInputRegistersResponse" ->
             processReadInputRegistersResponse(response, data)
      [] name = "processWriteSingleCoilResponse" ->
             processWriteSingleCoilResponse(response, data)
      [] name = "processWriteSingleRegisterResponse" ->
             processWriteSingleRegisterResponse(response, data)
      [] name = "processWriteMultipleCoilsResponse" ->
             processWriteMultipleCoilsResponse(response, data)
      [] name = "processWriteMultipleRegistersResponse" ->
             processWriteMultipleRegistersResponse(response, data)
      [] OTHER ->
             processReadWriteMultipleRegistersResponse(response, data)

\* the function code each decoder hands to isValid
DecoderCode ==
    [name \in Decoders |->
        CHOOSE c \in DOMAIN BuiltIn : BuiltIn[c] = name]

BitDecoders == {"processReadCoilsResponse", "processReadDiscreteInputsResponse"}

RegisterDecoders ==
    {"processReadHoldingRegistersResponse", "processReadInputRegistersResponse",
     "processReadWriteMultipleRegistersResponse"}

FixedSizeDecoders == Decoders \ (BitDecoders \cup RegisterDecoders)

\* the 0-based payload offsets a decoder reads on its way through the code:
\* payload[0] once the size test passed, then the packed bytes (when there
\* is a Data Unit to fill), the registers, or the two quint16 of decodeData
payloadReads(name, response, data) ==
    LET n == dataSize(response)
    IN  IF ~isValid(response, DecoderCode[name]) THEN {}
        ELSE IF name \in FixedSizeDecoders THEN
            IF n # minimumDataSize(response) THEN {} ELSE 0..3
        ELSE IF n < minimumDataSize(response) THEN {}
        ELSE LET byteCount == quint8(response.data[1])
             IN  IF n - 1 # byteCount THEN {0}
                 ELSE IF name \in BitDecoders THEN
                     IF data # NullUnit THEN 0..(n - 1) ELSE {0}
                 ELSE IF byteCount % 2 # 0 THEN {0}
                 ELSE 0..(2 * quint8(byteCount \div 2))

CallDecoder(name) ==
    /\ dec.phase = "call"
    /\ LET res == decoder(name, dec.response, dec.data)
       IN  dec' = [dec EXCEPT !.phase = "decoded", !.ok = res.ok, !.out = res.data,
                              !.called = name]
    /\ UNCHANGED <<isOpen, state, error, impl, queue, last, bld>>

DecodersNext == \E name \in Decoders : CallDecoder(name)

SpecDecoders == DecInit /\ [][DecodersNext]_vars

DecoderReturned == dec.phase = "decoded"

\* the response is one the claim says the decoder must reject
MustReject(name, response) ==
    LET n == dataSize(response)
        least == minimumDataSize(Pdu(DecoderCode[name], <<>>))
    IN  \/ ~isValid(response, DecoderCode[name])
        \/ /\ name \in BitDecoders \cup RegisterDecoders
           /\ \/ n < least
              \/ response.data[1] # n - 1
              \/ name \in RegisterDecoders /\ response.data[1] % 2 # 0
        \/ name \in FixedSizeDecoders /\ n # least
        \/ /\ name = "processWriteMultipleRegistersResponse"
           /\ n = least
           /\ decode16(response.data, 2) \notin 1..123

CoilPatterns == {"on", "off", "alternate", "first", "wide"}

\* n coil values: all 1, all 0, 1 0 1 0 .., 1 0 0 0 .., or 0 0 65535 0 0 65535 ..
CoilValues(pattern, n) ==
    [i \in 1..n |->
        CASE pattern = "on" -> 1
          [] pattern = "off" -> 0
          [] pattern = "alternate" -> i % 2
          [] pattern = "first" -> IF i = 1 THEN 1 ELSE 0
          [] OTHER -> IF i % 3 = 0 THEN 65535 ELSE 0]

CoilUnits ==
    {DataUnit("Coils", 19, CoilValues(p, n)) : p \in CoilPatterns, n \in 2..MaxCoils}

BuildInit ==
    /\ isOpen = FALSE
    /\ state = "UnconnectedState"
    /\ error = "NoError"
    /\ impl = "QModbusClient"
    /\ queue = <<>>
    /\ last = NoCall
    /\ dec = NoDecode
    /\ bld \in {[phase |-> "unit", unit |-> u, request |-> InvalidPdu] : u \in CoilUnits}

\* QModbusClientPrivate::createWriteRequest(data)
CreateWriteRequest ==
    /\ bld.phase = "unit"
    /\ bld' = [bld EXCEPT !.phase = "built", !.request = createWriteRequest(bld.unit)]
    /\ UNCHANGED <<isOpen, state, error, impl, queue, last, dec>>

BuildNext == CreateWriteRequest

SpecBuild == BuildInit /\ [][BuildNext]_vars

Built == bld.phase = "built"

\* 1 for a value other than 0, 0 for the value 0
AsBit(v) == IF v # 0 THEN 1 ELSE 0

\* C12: for a Coils write of count values, count in 2..2000, the request is
\* Write Multiple Coils with byteCount = ceil(count / 8) followed by exactly
\* byteCount packed bytes; bit (i mod 8), LSB-first, of byte floor(i / 8) is
\* (values[i] # 0) for every i < count, every bit of the final byte at a
\* position >= count is 0, and decoding the packed bytes LSB-first gives
\* the same count values back in the same order.
CoilsArePackedLsbFirst ==
    Built /\ bld.unit.valueCount \in 2..2000 =>
        LET count == bld.unit.valueCount
            byteCount == (count + 7) \div 8
            data == bld.request.data
            bytes == SubSeq(data, 6, Len(data))
            echoed == DataUnit("Coils", bld.unit.startAddress, Zeros(count))
        IN  /\ bld.request.code = FunctionCode.WriteMultipleCoils
            /\ Len(data) = 5 + byteCount
            /\ data[5] = byteCount
            /\ \A i \in 0..(count - 1) :
                   bit(bytes[i \div 8 + 1], i % 8) = AsBit(bld.unit.values[i + 1])
            /\ \A i \in count..(8 * byteCount - 1) :
                   bit(bytes[i \div 8 + 1], i % 8) = 0
            /\ unpackBits(<<byteCount>> \o bytes, echoed)
                   = [i \in 1..count |-> AsBit(bld.unit.values[i])]

\* C13: a Common reply is Finished with a decoded result only when the
\* function code of the response is that of the request sent for it; a
\* well-formed, non-exception response with another supported function code
\* neither completes the reply nor gives its result a kind other than the
\* kind of the request's Data Unit.
ResultFollowsRequest ==
    Completing /\ last.element.reply.type = "Common" =>
        /\ last.reply.finished => last.pdu.code = last.element.request.code
        /\ /\ isValidPdu(last.pdu)
           /\ ~isException(last.pdu)
           /\ last.pdu.code \in DOMAIN BuiltIn
           /\ last.pdu.code # last.element.request.code
           => /\ ~last.reply.finished
              /\ last.reply.result.type
                     \in {last.element.reply.result.type, last.element.unit.type}

====
